---- MODULE Spec2Model ----
(***************************************************************************)
(* Model of the ink! contract `product` (src/lib.rs): the Product record   *)
(* with its two transitions and the ProductFactory storage, a vector of    *)
(* products addressed by position.  Every message of the contract is one   *)
(* action; the arguments and the caller of the last message, its result    *)
(* and the storage before it are kept so that the contract of each message *)
(* can be stated over states.                                              *)
(***************************************************************************)
EXTENDS Integers, Sequences, FiniteSets, TLC

VARIABLES products, old, call, ret, created, inflight, lineage

vars == <<products, old, call, ret, created, inflight, lineage>>

(* inflight and lineage are used by SpecConcurrent and SpecLineage only;   *)
(* the messages themselves do not touch them.                              *)
ghost == <<inflight, lineage>>

(* Bound of the model: create_product is not taken once the storage holds *)
(* MaxProducts products.                                                   *)
MaxProducts == 2

(* The callers (ink_env::test::default_accounts names) and the codes used. *)
AccountId == {"alice", "bob"}
Codes == {1, 65535}

(* pid arguments tried: every valid position and positions past the end.   *)
Pids == 0 .. MaxProducts

(* Option<AccountId> *)
None == <<>>
Some(a) == <<a>>
OptionAccountId == {None} \cup {Some(a) : a \in AccountId}

(* struct Product *)
Product == [state : {0, 1}, code : Codes, owner : AccountId, delegate_to : OptionAccountId]

(* enum Error, and the other outcomes of a message *)
Error == {"PidNotExists", "InvalidOwner", "InvalidDelegate", "InvalidState"}

-----------------------------------------------------------------------------
(* impl Product *)

Product_new_NoReset(state, code, owner) ==
    [state |-> state, code |-> code, owner |-> owner, delegate_to |-> Some(owner)]

Product_new(state, code, owner) ==
    [state |-> state, code |-> code, owner |-> owner, delegate_to |-> None]

get_owner(p) == p.owner

get_code(p) == p.code

get(p) == [code |-> p.code, state |-> p.state, owner |-> p.owner, delegate_to |-> p.delegate_to]

get_delegate(p) == p.delegate_to

get_state(p) == p.state

Product_delegate_to_KeepsState(p, delegate) ==
    [p EXCEPT !.delegate_to = Some(delegate)]

Product_delegate_to_TakesOwner(p, delegate) ==
    [p EXCEPT !.state = 1, !.owner = delegate, !.delegate_to = Some(delegate)]

Product_delegate_to_State2(p, delegate) ==
    [p EXCEPT !.state = 2, !.delegate_to = Some(delegate)]

Product_delegate_to(p, delegate) ==
    [p EXCEPT !.state = 1, !.delegate_to = Some(delegate)]

Product_accept_KeepsOwner(p, delegate) ==
    [p EXCEPT !.state = 0, !.delegate_to = None]

Product_accept_KeepsDelegate(p, delegate) ==
    [p EXCEPT !.state = 0, !.owner = delegate]

Product_accept(p, delegate) ==
    [p EXCEPT !.state = 0, !.owner = delegate, !.delegate_to = None]

-----------------------------------------------------------------------------
(* StorageVec<Product>: positions are 0-based in the source *)

len(ps) == Len(ps)

at(ps, pid) == ps[pid + 1]

push_Front(ps, p) == <<p>> \o ps

push(ps, p) == Append(ps, p)

-----------------------------------------------------------------------------
(* impl ProductFactory: the result and the storage effect of each message  *)

(* The three early returns of delegate_product, in the order of the code.  *)
delegate_product_result_StateFirst(ps, pid, caller) ==
    IF pid >= len(ps) THEN "PidNotExists"
    ELSE IF get_state(at(ps, pid)) # 0 THEN "InvalidState"
    ELSE IF get_owner(at(ps, pid)) # caller THEN "InvalidOwner"
    ELSE "Ok"

delegate_product_result_NoOwnerCheck(ps, pid, caller) ==
    IF pid >= len(ps) THEN "PidNotExists"
    ELSE IF get_state(at(ps, pid)) # 0 THEN "InvalidState"
    ELSE "Ok"

delegate_product_result_NoStateCheck(ps, pid, caller) ==
    IF pid >= len(ps) THEN "PidNotExists"
    ELSE IF get_owner(at(ps, pid)) # caller THEN "InvalidOwner"
    ELSE "Ok"

delegate_product_result(ps, pid, caller) ==
    IF pid >= len(ps) THEN "PidNotExists"
    ELSE IF get_owner(at(ps, pid)) # caller THEN "InvalidOwner"
    ELSE IF get_state(at(ps, pid)) # 0 THEN "InvalidState"
    ELSE "Ok"

(* The three early returns of accept_product, in the order of the code.    *)
accept_product_result_StateFirst(ps, pid, caller) ==
    IF pid >= len(ps) THEN "PidNotExists"
    ELSE IF get_state(at(ps, pid)) # 1 THEN "InvalidState"
    ELSE IF get_delegate(at(ps, pid)) # Some(caller) THEN "InvalidDelegate"
    ELSE "Ok"

accept_product_result_NoDelegateCheck(ps, pid, caller) ==
    IF pid >= len(ps) THEN "PidNotExists"
    ELSE IF get_state(at(ps, pid)) # 1 THEN "InvalidState"
    ELSE "Ok"

accept_product_result_NotOwner(ps, pid, caller) ==
    IF pid >= len(ps) THEN "PidNotExists"
    ELSE IF get_delegate(at(ps, pid)) # Some(caller) THEN "InvalidDelegate"
    ELSE IF get_owner(at(ps, pid)) = caller THEN "InvalidDelegate"
    ELSE IF get_state(at(ps, pid)) # 1 THEN "InvalidState"
    ELSE "Ok"

accept_product_result(ps, pid, caller) ==
    IF pid >= len(ps) THEN "PidNotExists"
    ELSE IF get_delegate(at(ps, pid)) # Some(caller) THEN "InvalidDelegate"
    ELSE IF get_state(at(ps, pid)) # 1 THEN "InvalidState"
    ELSE "Ok"

(* The storage after delegate_product: p.delegate_to(..) runs only when no *)
(* early return was taken.                                                 *)
delegate_product_store_WriteFirst(ps, pid, caller, delegate_to) ==
    IF pid < len(ps)
    THEN [ps EXCEPT ![pid + 1] = Product_delegate_to(@, delegate_to)]
    ELSE ps

delegate_product_store_ResetOnError(ps, pid, caller, delegate_to) ==
    IF delegate_product_result(ps, pid, caller) = "Ok"
    THEN [ps EXCEPT ![pid + 1] = Product_delegate_to(@, delegate_to)]
    ELSE IF delegate_product_result(ps, pid, caller) = "InvalidState"
    THEN [ps EXCEPT ![pid + 1].state = 0]
    ELSE ps

delegate_product_store(ps, pid, caller, delegate_to) ==
    IF delegate_product_result(ps, pid, caller) = "Ok"
    THEN [ps EXCEPT ![pid + 1] = Product_delegate_to(@, delegate_to)]
    ELSE ps

(* The storage after accept_product.                                       *)
accept_product_store(ps, pid, caller) ==
    IF accept_product_result(ps, pid, caller) = "Ok"
    THEN [ps EXCEPT ![pid + 1] = Product_accept(@, caller)]
    ELSE ps

(* The storage after create_product.                                       *)
create_product_store(ps, code, caller) ==
    push(ps, Product_new(0, code, caller))

(* get_last: products[len - 1] on u32.  With an empty vector 0 - 1 panics  *)
(* when overflow checks are on (<<>>); when they are off it wraps to       *)
(* u32::MAX, written -1 here: it is only ever compared with len, and it is *)
(* larger than every len.                                                  *)
get_last_index_First(ps, overflow_checks) ==
    IF len(ps) >= 1 THEN <<0>>
    ELSE IF overflow_checks THEN <<>>
    ELSE <<-1>>

get_last_index(ps, overflow_checks) ==
    IF len(ps) >= 1 THEN <<len(ps) - 1>>
    ELSE IF overflow_checks THEN <<>>
    ELSE <<-1>>

(* StorageVec's Index panics on a position that is not below len.          *)
in_bounds(ps, i) == i >= 0 /\ i < len(ps)

get_last_result(ps, overflow_checks) ==
    LET i == get_last_index(ps, overflow_checks)
    IN  IF i = <<>> THEN "Panic"
        ELSE IF in_bounds(ps, i[1]) THEN "Returned"
        ELSE "Panic"

get_last_value(ps, overflow_checks) ==
    LET i == get_last_index(ps, overflow_checks)
    IN  IF i # <<>> /\ in_bounds(ps, i[1]) THEN <<at(ps, i[1])>> ELSE <<>>

-----------------------------------------------------------------------------
(* The state machine *)

NoCall == [op |-> "new", caller |-> "alice", pid |-> 0, delegate_to |-> None,
           code |-> 1, result |-> "Ok"]

(* ProductFactory::new *)
Init ==
    /\ products = <<>>
    /\ old = <<>>
    /\ call = NoCall
    /\ ret = <<>>
    /\ created = <<>>
    /\ inflight = <<>>
    /\ lineage = <<>>

create_product ==
    /\ len(products) < MaxProducts
    /\ \E code \in Codes, caller \in AccountId :
         /\ products' = create_product_store(products, code, caller)
         /\ call' = [op |-> "create_product", caller |-> caller, pid |-> 0,
                     delegate_to |-> None, code |-> code, result |-> "Ok"]
         /\ created' = Append(created, [id |-> len(products), code |-> code])
    /\ old' = products
    /\ ret' = <<>>

get_last ==
    /\ \E caller \in AccountId, overflow_checks \in BOOLEAN :
         /\ call' = [op |-> "get_last", caller |-> caller, pid |-> 0,
                     delegate_to |-> None, code |-> 1,
                     result |-> get_last_result(products, overflow_checks)]
         /\ ret' = get_last_value(products, overflow_checks)
    /\ old' = products
    /\ UNCHANGED <<products, created>>

delegate_product ==
    /\ \E pid \in Pids, delegate_to \in AccountId, caller \in AccountId :
         /\ products' = delegate_product_store(products, pid, caller, delegate_to)
         /\ call' = [op |-> "delegate_product", caller |-> caller, pid |-> pid,
                     delegate_to |-> Some(delegate_to), code |-> 1,
                     result |-> delegate_product_result(products, pid, caller)]
    /\ old' = products
    /\ ret' = <<>>
    /\ UNCHANGED created

accept_product ==
    /\ \E pid \in Pids, caller \in AccountId :
         /\ products' = accept_product_store(products, pid, caller)
         /\ call' = [op |-> "accept_product", caller |-> caller, pid |-> pid,
                     delegate_to |-> None, code |-> 1,
                     result |-> accept_product_result(products, pid, caller)]
    /\ old' = products
    /\ ret' = <<>>
    /\ UNCHANGED created

Next ==
    \/ create_product /\ UNCHANGED ghost
    \/ get_last /\ UNCHANGED ghost
    \/ delegate_product /\ UNCHANGED ghost
    \/ accept_product /\ UNCHANGED ghost

Spec == Init /\ [][Next]_vars

TypeOK ==
    /\ products \in Seq(Product)
    /\ old \in Seq(Product)
    /\ len(products) <= MaxProducts
    /\ call.op \in {"new", "create_product", "get_last", "delegate_product", "accept_product"}
    /\ call.result \in Error \cup {"Ok", "Panic", "Returned"}

-----------------------------------------------------------------------------
(* The last message, as the properties below read it *)

Called(o) == call.op = o

Succeeded == call.result = "Ok"

Existed == call.pid < len(old)

(* the addressed product before and after the last message *)
before == at(old, call.pid)
after == at(products, call.pid)

(* C1: delegate_product succeeds if and only if pid is below the length of *)
(* the storage, the caller is the product's owner and its state is 0; on   *)
(* success the product's state is 1 and its delegate is Some(target).      *)
C1_delegate_succeeds_iff ==
    Called("delegate_product") =>
        /\ Succeeded <=> (Existed /\ before.owner = call.caller /\ before.state = 0)
        /\ Succeeded => (after.state = 1 /\ after.delegate_to = call.delegate_to)

C1_witness ==
    /\ Called("delegate_product")
    /\ Succeeded
    /\ call.delegate_to = Some("bob")
    /\ before.owner = "alice"

(* C2: accept_product succeeds if and only if pid is below the length of   *)
(* the storage, the product's delegate is Some(caller) and its state is 1; *)
(* on success the product has owner = caller, state = 0, delegate = None.  *)
C2_accept_succeeds_iff ==
    Called("accept_product") =>
        /\ Succeeded <=> (Existed /\ before.delegate_to = Some(call.caller) /\ before.state = 1)
        /\ Succeeded => (after.owner = call.caller /\ after.state = 0 /\ after.delegate_to = None)

C2_witness ==
    /\ Called("accept_product")
    /\ Succeeded
    /\ before.owner = "alice"
    /\ call.caller = "bob"

(* C3: a failing delegate_product reports the first violated precondition  *)
(* in the order existence, ownership, state: PidNotExists whenever pid is  *)
(* not below the length; otherwise InvalidOwner whenever the caller is not *)
(* the owner, also when the product is in state 1; otherwise InvalidState  *)
(* when the state is not 0.                                                *)
C3_delegate_error_order ==
    Called("delegate_product") =>
        /\ ~Existed => call.result = "PidNotExists"
        /\ (Existed /\ before.owner # call.caller) => call.result = "InvalidOwner"
        /\ (Existed /\ before.owner = call.caller /\ before.state # 0)
               => call.result = "InvalidState"

C3_witness ==
    /\ Called("delegate_product")
    /\ Existed
    /\ before.owner # call.caller
    /\ before.state = 1
    /\ call.result = "InvalidOwner"

(* C4: a failing accept_product reports the first violated precondition in *)
(* the order existence, delegate identity, state: PidNotExists whenever    *)
(* pid is not below the length; otherwise InvalidDelegate whenever the     *)
(* delegate is not Some(caller), also when it is None; otherwise           *)
(* InvalidState when the state is not 1.                                   *)
C4_accept_error_order ==
    Called("accept_product") =>
        /\ ~Existed => call.result = "PidNotExists"
        /\ (Existed /\ before.delegate_to # Some(call.caller))
               => call.result = "InvalidDelegate"
        /\ (Existed /\ before.delegate_to = Some(call.caller) /\ before.state # 1)
               => call.result = "InvalidState"

C4_witness ==
    /\ Called("accept_product")
    /\ Existed
    /\ before.state = 1
    /\ before.delegate_to # Some(call.caller)
    /\ call.result = "InvalidDelegate"

(* C5, as stated: InvalidState is the error of a message sent to a product *)
(* in the wrong state: delegate_product (by the owner, the earlier checks  *)
(* passing) on a product in state 1 returns InvalidState, and              *)
(* accept_product on an existing product in state 0 returns InvalidState.  *)
C5_original_invalid_state ==
    /\ (Called("delegate_product") /\ Existed /\ before.owner = call.caller
            /\ before.state = 1) => call.result = "InvalidState"
    /\ (Called("accept_product") /\ Existed /\ before.state = 0)
            => call.result = "InvalidState"

(* C5, amended: delegate_product by the owner on a product in state 1      *)
(* returns InvalidState; accept_product on an existing product in state 0  *)
(* returns InvalidDelegate, its delegate being None, and accept_product    *)
(* never returns InvalidState.                                             *)
C5_invalid_state_amended ==
    /\ (Called("delegate_product") /\ Existed /\ before.owner = call.caller
            /\ before.state = 1) => call.result = "InvalidState"
    /\ (Called("accept_product") /\ Existed /\ before.state = 0)
            => call.result = "InvalidDelegate"
    /\ Called("accept_product") => call.result # "InvalidState"

C5_witness ==
    /\ Called("accept_product")
    /\ Existed
    /\ before.state = 0
    /\ before.owner = call.caller
    /\ call.result = "InvalidDelegate"

(* C6: a delegate_product or accept_product that returns an error leaves   *)
(* the whole storage as it was: same length, every product the same.       *)
C6_failure_changes_nothing ==
    ((Called("delegate_product") \/ Called("accept_product")) /\ ~Succeeded)
        => products = old

C6_witness ==
    /\ Called("delegate_product")
    /\ call.result = "InvalidOwner"
    /\ before.state = 0
    /\ len(old) = 2

(* C7: create_product always succeeds, makes the storage longer by exactly *)
(* one, the appended product has owner = caller, state = 0, delegate =     *)
(* None and code = code, and every earlier product is unchanged.           *)
C7_create_appends ==
    Called("create_product") =>
        /\ Succeeded
        /\ len(products) = len(old) + 1
        /\ at(products, len(old)) = [state |-> 0, code |-> call.code,
                                     owner |-> call.caller, delegate_to |-> None]
        /\ SubSeq(products, 1, len(old)) = old

C7_witness ==
    /\ Called("create_product")
    /\ len(old) = 1
    /\ at(old, 0).state = 1
    /\ at(old, 0).code # call.code
    /\ at(old, 0).owner # call.caller

(* C8: the storage is append-only with identifiers 0, 1, 2, ... in         *)
(* creation order: the k-th create_product is addressed by k - 1, the      *)
(* length of the storage before it; the length never decreases; a product  *)
(* addressable at i stays addressable at i.                                *)
C8_append_only ==
    /\ len(products) = Len(created)
    /\ \A k \in 1 .. Len(created) :
         /\ created[k].id = k - 1
         /\ created[k].id < len(products)
         /\ at(products, created[k].id).code = created[k].code
    /\ len(products) >= len(old)
    /\ \A i \in 0 .. len(old) - 1 : at(products, i).code = at(old, i).code

C8_witness ==
    /\ len(products) = 2
    /\ created[1].code # created[2].code
    /\ Called("accept_product")
    /\ Succeeded
    /\ call.pid = 0

(* C9: in every reachable storage every product has state 0 if and only   *)
(* if its delegate is None, state 1 if and only if its delegate is Some(p) *)
(* for an account p, and no state other than 0 or 1.                       *)
C9_state_matches_delegate ==
    \A i \in 0 .. len(products) - 1 :
        LET p == at(products, i)
        IN  /\ p.state \in {0, 1}
            /\ p.state = 0 <=> p.delegate_to = None
            /\ p.state = 1 <=> (\E a \in AccountId : p.delegate_to = Some(a))

C9_witness ==
    /\ len(products) = 2
    /\ at(products, 0).state = 1
    /\ at(products, 1).state = 0
    /\ Called("accept_product")
    /\ Succeeded
    /\ call.pid = 1

(* C10: get_last on an empty storage returns an explicit EmptyStore error  *)
(* value and leaves the storage unchanged, rather than aborting.           *)
C10_get_last_empty_is_error ==
    (Called("get_last") /\ len(old) = 0)
        => (call.result = "EmptyStore" /\ products = old)

(* C11: on a non-empty storage get_last returns a copy of the product at  *)
(* len - 1, the one created last, as delegate_product and accept_product   *)
(* have left it, and does not change the storage.                          *)
C11_get_last_returns_last ==
    (Called("get_last") /\ len(old) >= 1) =>
        /\ call.result = "Returned"
        /\ ret = <<at(old, len(old) - 1)>>
        /\ products = old

C11_witness ==
    /\ Called("get_last")
    /\ len(old) = 2
    /\ at(old, 1).state = 1
    /\ at(old, 0) # at(old, 1)
    /\ ret = <<at(products, 1)>>

(* C13: idempotent rejection: when a delegate_product or accept_product    *)
(* has failed with an error, the same message again (same pid, caller and  *)
(* target) fails with the same error.                                      *)
RepeatsFailed ==
    /\ call.op \in {"delegate_product", "accept_product"}
    /\ call.result \in Error
    /\ call'.op = call.op
    /\ call'.pid = call.pid
    /\ call'.caller = call.caller
    /\ call'.delegate_to = call.delegate_to

C13_idempotent_rejection ==
    [][RepeatsFailed => call'.result = call.result]_vars

C13_witness ==
    /\ Called("delegate_product")
    /\ call.result = "InvalidState"
    /\ delegate_product_result(products, call.pid, call.caller) = "InvalidState"
    /\ delegate_product_store(products, call.pid, call.caller, call.delegate_to[1]) = old

(* C14: right after a successful accept_product(pid) by c the product's    *)
(* delegate is None, so every further accept_product(pid) by any account,  *)
(* c included, fails with InvalidDelegate and leaves the storage as it is; *)
(* the delegate stops being None only by a successful delegate_product of  *)
(* the owner.                                                              *)
C14_accept_after_accept ==
    /\ (Called("accept_product") /\ Succeeded) =>
          /\ after.delegate_to = None
          /\ \A x \in AccountId :
               /\ accept_product_result(products, call.pid, x) = "InvalidDelegate"
               /\ accept_product_store(products, call.pid, x) = products
    /\ (Called("accept_product") /\ Existed /\ before.delegate_to = None) =>
          (call.result = "InvalidDelegate" /\ products = old)
    /\ \A i \in 0 .. len(old) - 1 :
          (at(old, i).delegate_to = None /\ at(products, i).delegate_to # None) =>
              /\ Called("delegate_product")
              /\ Succeeded
              /\ call.pid = i
              /\ call.caller = at(old, i).owner

C14_witness ==
    /\ Called("accept_product")
    /\ Succeeded
    /\ call.caller = "bob"
    /\ after.owner = "bob"
    /\ accept_product_result(products, call.pid, "bob") = "InvalidDelegate"

(* C15: the only changes of a product's state are 0 -> 1, by a successful  *)
(* delegate_product of the product's owner, and 1 -> 0, by a successful    *)
(* accept_product of the product's delegate; a product starts in state 0   *)
(* and no other message or caller changes a state.                         *)
C15_state_changes ==
    /\ \A i \in 0 .. len(old) - 1 :
          at(products, i).state # at(old, i).state =>
              \/ /\ at(old, i).state = 0
                 /\ at(products, i).state = 1
                 /\ Called("delegate_product")
                 /\ Succeeded
                 /\ call.pid = i
                 /\ call.caller = at(old, i).owner
              \/ /\ at(old, i).state = 1
                 /\ at(products, i).state = 0
                 /\ Called("accept_product")
                 /\ Succeeded
                 /\ call.pid = i
                 /\ at(old, i).delegate_to = Some(call.caller)
    /\ \A i \in len(old) .. len(products) - 1 :
          /\ Called("create_product")
          /\ at(products, i).state = 0

C15_witness ==
    /\ Called("accept_product")
    /\ len(old) = 2
    /\ at(old, 1).state = 1
    /\ at(products, 1).state = 0
    /\ at(old, 0).state = 1

(* C18: while a product is in state 1 its delegate is fixed: no message of *)
(* the owner or of another account changes, replaces or cancels it; the    *)
(* product is unchanged by every message but the accept_product of the     *)
(* delegate itself, so without that message it stays in state 1.           *)
C18_pending_is_fixed ==
    \A i \in 0 .. len(old) - 1 :
        (at(old, i).state = 1 /\ at(products, i) # at(old, i)) =>
            /\ Called("accept_product")
            /\ Succeeded
            /\ call.pid = i
            /\ at(old, i).delegate_to = Some(call.caller)

C18_witness ==
    /\ Called("delegate_product")
    /\ Existed
    /\ before.state = 1
    /\ before.owner = call.caller
    /\ before.delegate_to # call.delegate_to
    /\ call.result = "InvalidState"
    /\ after = before

(* C19: a successful delegate_product(pid) changes only state and delegate *)
(* of product pid, a successful accept_product(pid) only its owner, state  *)
(* and delegate; the length of the storage and every other product are     *)
(* unchanged, and no message changes the code of an existing product.      *)
C19_frame ==
    /\ ((Called("delegate_product") \/ Called("accept_product")) /\ Succeeded) =>
          /\ len(products) = len(old)
          /\ after.code = before.code
          /\ Called("delegate_product") => after.owner = before.owner
          /\ \A j \in 0 .. len(old) - 1 : j # call.pid => at(products, j) = at(old, j)
    /\ \A i \in 0 .. len(old) - 1 : at(products, i).code = at(old, i).code

C19_witness ==
    /\ Called("delegate_product")
    /\ Succeeded
    /\ len(old) = 2
    /\ call.pid = 0
    /\ call.delegate_to # Some(before.owner)
    /\ at(old, 1).state = 1
    /\ at(old, 1).code # before.code

(* C20: self-delegation is permitted: delegate_product(pid, o) by the      *)
(* owner o of a product in state 0 succeeds and leaves state 1 with        *)
(* delegate Some(o); accept_product(pid) by o then succeeds and leaves     *)
(* state 0, owner o and delegate None.                                     *)
C20_self_delegation ==
    /\ (Called("delegate_product") /\ Existed /\ before.state = 0
            /\ before.owner = call.caller /\ call.delegate_to = Some(call.caller)) =>
          /\ Succeeded
          /\ after = [before EXCEPT !.state = 1, !.delegate_to = Some(call.caller)]
          /\ accept_product_result(products, call.pid, call.caller) = "Ok"
    /\ (Called("accept_product") /\ Existed /\ before.state = 1
            /\ before.owner = call.caller /\ before.delegate_to = Some(call.caller)) =>
          /\ Succeeded
          /\ after = [before EXCEPT !.state = 0, !.delegate_to = None]

C20_witness ==
    /\ Called("accept_product")
    /\ Succeeded
    /\ before.owner = call.caller
    /\ before.delegate_to = Some(call.caller)
    /\ after.owner = call.caller

-----------------------------------------------------------------------------
(* The owner of a product in state 0 and the delegate of a product in      *)
(* state 1 keep sending the message that is theirs to send.                *)

DelegateOk(i) ==
    /\ delegate_product
    /\ UNCHANGED ghost
    /\ call'.pid = i
    /\ call'.result = "Ok"

AcceptOk(i) ==
    /\ accept_product
    /\ UNCHANGED ghost
    /\ call'.pid = i
    /\ call'.result = "Ok"

(* Bound of SpecFair: it creates at most FairProducts products.            *)
FairProducts == 1

FairNext ==
    \/ len(products) < FairProducts /\ create_product /\ UNCHANGED ghost
    \/ get_last /\ UNCHANGED ghost
    \/ delegate_product /\ UNCHANGED ghost
    \/ accept_product /\ UNCHANGED ghost

Fairness ==
    \A i \in 0 .. FairProducts - 1 : WF_vars(DelegateOk(i)) /\ WF_vars(AcceptOk(i))

SpecFair == Init /\ [][FairNext]_vars /\ Fairness

(* a message on product i that would succeed now *)
HasSucceedingCall(i) ==
    \/ delegate_product_result(products, i, at(products, i).owner) = "Ok"
    \/ \E a \in AccountId : accept_product_result(products, i, a) = "Ok"

InState(i, st) == i < len(products) /\ at(products, i).state = st

(* C16: no product reaches a terminal state: in every reachable state each *)
(* product has a message that succeeds (delegate_product of its owner in   *)
(* state 0, accept_product of its delegate in state 1), and a product      *)
(* whose owner and delegate keep sending those messages alternates between *)
(* the two states for ever.                                                *)
C16_no_terminal_state ==
    /\ [](\A i \in 0 .. len(products) - 1 : HasSucceedingCall(i))
    /\ \A i \in 0 .. FairProducts - 1 :
          /\ []<>(~InState(i, 0))
          /\ []<>(~InState(i, 1))

C16_witness ==
    /\ Called("delegate_product")
    /\ Succeeded
    /\ call.delegate_to = Some("bob")
    /\ InState(call.pid, 1)
    /\ accept_product_result(products, call.pid, "bob") = "Ok"

-----------------------------------------------------------------------------
(* SpecLineage: the messages, with the creator of each product and the     *)
(* accounts its owners have named in a successful delegate_product kept in *)
(* lineage.                                                                *)

(* Bound of SpecLineage: it creates at most LineageProducts products.      *)
LineageProducts == 1

LineageCreate ==
    /\ len(products) < LineageProducts
    /\ create_product
    /\ lineage' = Append(lineage, [creator |-> call'.caller, named |-> {}])
    /\ UNCHANGED inflight

LineageDelegate ==
    /\ delegate_product
    /\ lineage' = IF call'.result = "Ok"
                  THEN [lineage EXCEPT ![call'.pid + 1].named = @ \cup {call'.delegate_to[1]}]
                  ELSE lineage
    /\ UNCHANGED inflight

LineageNext ==
    \/ LineageCreate
    \/ get_last /\ UNCHANGED ghost
    \/ LineageDelegate
    \/ accept_product /\ UNCHANGED ghost

SpecLineage == Init /\ [][LineageNext]_vars

(* C17: the owner of a product changes only in a successful accept_product *)
(* and the new owner is the account that was the product's delegate just   *)
(* before; so the owner of a product is always its creator or an account   *)
(* that an owner of it named as the target of a delegate_product.          *)
C17_owner_lineage ==
    /\ \A i \in 0 .. len(old) - 1 :
          at(products, i).owner # at(old, i).owner =>
              /\ Called("accept_product")
              /\ Succeeded
              /\ call.pid = i
              /\ at(old, i).delegate_to = Some(at(products, i).owner)
    /\ \A i \in 0 .. len(products) - 1 :
          \/ at(products, i).owner = lineage[i + 1].creator
          \/ at(products, i).owner \in lineage[i + 1].named

C17_witness ==
    /\ Called("accept_product")
    /\ Succeeded
    /\ lineage[call.pid + 1].creator = "alice"
    /\ lineage[call.pid + 1].named = {"bob"}
    /\ after.owner = "bob"

-----------------------------------------------------------------------------
(* SpecConcurrent: two accounts send a message each at the same time.  A   *)
(* message takes &mut self and the contract runs it to its return before   *)
(* the next one starts, so the two are run one after the other, in either  *)
(* order.  inflight holds the round: the storage at its start, the two     *)
(* messages, their results and the order in which they ran.                *)

(* Bound of SpecConcurrent: it creates at most ConcProducts products.      *)
ConcProducts == 1

InFlight == "InFlight"

(* the mutating messages that can be sent to the storage ps *)
Messages(ps) ==
    [op : {"create_product"}, caller : AccountId, pid : {0},
     delegate_to : {None}, code : Codes]
    \cup [op : {"delegate_product"}, caller : AccountId, pid : 0 .. len(ps),
          delegate_to : {Some(a) : a \in AccountId}, code : {1}]
    \cup [op : {"accept_product"}, caller : AccountId, pid : 0 .. len(ps),
          delegate_to : {None}, code : {1}]

Creates(m1, m2) ==
    (IF m1.op = "create_product" THEN 1 ELSE 0) + (IF m2.op = "create_product" THEN 1 ELSE 0)

Round == inflight[1]

Submit ==
    /\ inflight = <<>>
    /\ \E m1 \in Messages(products), m2 \in Messages(products) :
         /\ len(products) + Creates(m1, m2) <= ConcProducts
         /\ inflight' = <<[start |-> products, calls |-> <<m1, m2>>,
                           results |-> <<InFlight, InFlight>>, order |-> <<>>]>>
    /\ UNCHANGED <<products, old, call, ret, created, lineage>>

(* the message just run is message k of the round *)
Runs(k) ==
    /\ call'.op = Round.calls[k].op
    /\ call'.caller = Round.calls[k].caller
    /\ call'.pid = Round.calls[k].pid
    /\ call'.delegate_to = Round.calls[k].delegate_to
    /\ call'.code = Round.calls[k].code

Execute ==
    /\ inflight # <<>>
    /\ \E k \in {1, 2} :
         /\ Round.results[k] = InFlight
         /\ (create_product \/ delegate_product \/ accept_product)
         /\ Runs(k)
         /\ inflight' = <<[Round EXCEPT !.results[k] = call'.result,
                                        !.order = Append(@, k)]>>
    /\ UNCHANGED lineage

Done ==
    /\ inflight # <<>>
    /\ Round.results[1] # InFlight
    /\ Round.results[2] # InFlight

(* both results have been returned to their senders *)
Collect ==
    /\ Done
    /\ inflight' = <<>>
    /\ call' = NoCall
    /\ old' = products
    /\ ret' = <<>>
    /\ UNCHANGED <<products, created, lineage>>

ConcNext ==
    \/ Submit
    \/ Execute
    \/ Collect

SpecConcurrent == Init /\ [][ConcNext]_vars

(* one message run alone on the storage ps: the storage and the result *)
Apply(ps, m) ==
    IF m.op = "create_product"
    THEN [store |-> create_product_store(ps, m.code, m.caller), result |-> "Ok"]
    ELSE IF m.op = "delegate_product"
    THEN [store |-> delegate_product_store(ps, m.pid, m.caller, m.delegate_to[1]),
          result |-> delegate_product_result(ps, m.pid, m.caller)]
    ELSE [store |-> accept_product_store(ps, m.pid, m.caller),
          result |-> accept_product_result(ps, m.pid, m.caller)]

(* the two messages of the round run one at a time, message first first *)
Serial(first, second) ==
    LET a == Apply(Round.start, Round.calls[first])
        b == Apply(a.store, Round.calls[second])
    IN  /\ products = b.store
        /\ Round.results[first] = a.result
        /\ Round.results[second] = b.result

(* the round is two delegate_product of the owner on one product in state  *)
(* 0, with different targets                                               *)
DelegateRace ==
    LET m1 == Round.calls[1]
        m2 == Round.calls[2]
    IN  /\ m1.op = "delegate_product"
        /\ m2.op = "delegate_product"
        /\ m1.pid = m2.pid
        /\ m1.pid < len(Round.start)
        /\ at(Round.start, m1.pid).state = 0
        /\ at(Round.start, m1.pid).owner = m1.caller
        /\ m2.caller = m1.caller
        /\ m1.delegate_to # m2.delegate_to

====
